---- MODULE Spec2Model ----
(***************************************************************************)
(* Token-gated background jobs of the MCP long-job server.                 *)
(*                                                                         *)
(* The repository holds the job subsystem twice: split over                *)
(* modules/utils/tokens.py, modules/utils/jobs.py and                      *)
(* modules/tools/long_job_tools.py, and once more, as one file, in         *)
(* modules/mcp_servers/long_job_server.py.  The variable impl says which   *)
(* of the two a run executes; where the two agree one definition models    *)
(* both, where they differ there is one definition per file.               *)
(*                                                                         *)
(* All handlers run on one asyncio event loop, so a handler, and a task    *)
(* between two of its suspension points, is one atomic step.  time.time()  *)
(* is the integer clock now.  Optional values are sequences: <<>> is       *)
(* Python's None and <<v>> is the value v.  What a handler gives back to   *)
(* its caller is a function of the state it is called in: for the handler  *)
(* h the operator h_answer is that answer and the action h is what the     *)
(* handler writes.                                                         *)
(***************************************************************************)
EXTENDS Integers, Sequences, FiniteSets, TLC

\* ------------------------------------------------------------------ bounds
MaxJobs == 1
MaxTicks == 1
TtlShort == 1
MaxProgressCalls == 2
NumChunks == 2
MaxSamples == 6
MaxDuration == 8
MaxRetries == 2

\* ------------------------------------------------------- program constants
SweepMaxAge == 3600
TOKEN_TTL_SECONDS == 3600

\* Durations are counted in half sample periods: sample_rate is 1/2 sample
\* per unit, so that int(duration * sample_rate) truncates.
UnitsPerSample == 2

Sessions == {"s1", "s2"}
JobIds == 1 .. MaxJobs
UnknownJobId == MaxJobs + 1
Impls == {"jobs", "long_job_server"}
\* the clock's steps: a second, and more than the age the sweep allows
TickSizes == {1, SweepMaxAge + 1}
TtlLong == (MaxTicks + 1) * (SweepMaxAge + 1)
TimeoutChoices == {<<>>, <<0>>, <<1>>}
\* fractions a callable reports, in hundredths: -0.5, 0.5 and 1.5
Fractions == {-50, 50, 150}

None == <<>>
Some(v) == <<v>>
IsNone(x) == x = <<>>
Val(x) == x[1]

\* impl   which of the two implementations runs
\* now    time.time(); ticks counts the clock's steps
\* JOBS   the keys of the dict _JOBS
\* job    the Job objects alive, by job id; task: each job's asyncio task
\* ids    the job ids uuid4 has handed out
\* served how many times get_job_result has answered with a job's outcome
\* run    by job id, the chunked transcription the job's callable performs and
\*        the files it leaves (youtube_audio_transcript.py)
\* split  the chunk loop of transcribe_with_whisper(_async) on one input
\* client the client helper call_long_tool_and_get_result (job_client_mixin.py)
\* polite the retry loop of call_tools_polite
VARIABLES impl, now, ticks, JOBS, job, task, ids, served, run, split, client, polite

vars == <<impl, now, ticks, JOBS, job, task, ids, served, run, split, client, polite>>

\* The state of the server.
server == <<impl, now, ticks, JOBS, job, task, ids, served>>

\* What the server does not touch, and what a transcription job does not.
client_side == <<split, client, polite>>
off_server == <<run, split, client, polite>>

\* Before any of the client-side helpers and loops is entered.
NoSplit == [pc |-> "none"]
NoClient == [pc |-> "none"]
NoPolite == [pc |-> "none"]

\* ------------------------------------------------------------------ tokens
SECRET == "dev-only-change-me"
OtherSecret == "other-secret"
NoSid == "no-sid"

\* hmac.new(SECRET, msg, sha256): an ideal MAC, the pair of key and message.
_sign(secret, msg) == <<secret, msg>>

\* A token string: form says whether it is empty, holds no "." or is
\* "<b64url(msg)>.<sig>"; msg is the payload the body decodes to.
MkToken(msg, sig) == [form |-> "dotted", msg |-> msg, sig |-> sig]

Payload(sid, exp) == [sid |-> sid, exp |-> exp]

issue_token_no_ttl(session_id, ttl_s, t) ==
    LET msg == Payload(session_id, t)
    IN MkToken(msg, _sign(SECRET, msg))

issue_token(session_id, ttl_s, t) ==
    LET msg == Payload(session_id, t + ttl_s)
    IN MkToken(msg, _sign(SECRET, msg))

MissingToken == [form |-> "empty", msg |-> Payload(NoSid, 0), sig |-> _sign("", Payload(NoSid, 0))]
NoDotToken == [form |-> "nodot", msg |-> Payload(NoSid, 0), sig |-> _sign("", Payload(NoSid, 0))]

Rejected(error) == [ok |-> FALSE, error |-> error, sid |-> NoSid, exp |-> 0]

verify_token_unsigned(token, t) ==
    IF token.form # "dotted" THEN Rejected("invalid token format")
    ELSE IF token.msg.exp < t THEN Rejected("token expired")
    ELSE IF token.msg.sid = NoSid THEN Rejected("token missing sid")
    ELSE [ok |-> TRUE, error |-> "", sid |-> token.msg.sid, exp |-> token.msg.exp]

\* A verification that keeps a session table: it turns away the token of a
\* session whose job has been retrieved.
verify_token_with_session_table(token, t) ==
    IF token.form # "dotted" THEN Rejected("invalid token format")
    ELSE IF token.sig # _sign(SECRET, token.msg) THEN Rejected("invalid token signature")
    ELSE IF token.msg.exp < t THEN Rejected("token expired")
    ELSE IF token.msg.sid = NoSid THEN Rejected("token missing sid")
    ELSE IF \E jid \in JobIds : served[jid] >= 1 THEN Rejected("session closed")
    ELSE [ok |-> TRUE, error |-> "", sid |-> token.msg.sid, exp |-> token.msg.exp]

verify_token_expiry_first(token, t) ==
    IF token.form # "dotted" THEN Rejected("invalid token format")
    ELSE IF token.msg.exp < t THEN Rejected("token expired")
    ELSE IF token.sig # _sign(SECRET, token.msg) THEN Rejected("invalid token signature")
    ELSE IF token.msg.sid = NoSid THEN Rejected("token missing sid")
    ELSE [ok |-> TRUE, error |-> "", sid |-> token.msg.sid, exp |-> token.msg.exp]

\* verify_token / _verify: format, then signature, then expiry, then sid; the
\* payload it returns is sid and exp.
verify_token(token, t) ==
    IF token.form # "dotted" THEN Rejected("invalid token format")
    ELSE IF token.sig # _sign(SECRET, token.msg) THEN Rejected("invalid token signature")
    ELSE IF token.msg.exp < t THEN Rejected("token expired")
    ELSE IF token.msg.sid = NoSid THEN Rejected("token missing sid")
    ELSE [ok |-> TRUE, error |-> "", sid |-> token.msg.sid, exp |-> token.msg.exp]

\* The tokens a caller presents: issued at server start with a short or a long
\* ttl, signed under another secret with either, altered after signing in the
\* sid or in the expiry, signed without a sid, without a ".", and none at all.
TokenChoices ==
    {issue_token(s, TtlLong, 0) : s \in Sessions}
    \cup {issue_token("s1", TtlShort, 0)}
    \cup {MkToken(Payload("s1", ttl), _sign(OtherSecret, Payload("s1", ttl))) :
              ttl \in {TtlShort, TtlLong}}
    \cup {MkToken(Payload("s2", TtlLong), _sign(SECRET, Payload("s1", TtlLong)))}
    \cup {MkToken(Payload("s1", TtlLong), _sign(SECRET, Payload("s1", TtlShort)))}
    \cup {MkToken(Payload(NoSid, TtlLong), _sign(SECRET, Payload(NoSid, TtlLong)))}
    \cup {NoDotToken, MissingToken}

\* What requires_token and the launch wrapper do with the token argument:
\* an empty one is answered {"error": "missing token"}, another is verified.
Auth(token, t) ==
    IF token.form = "empty" THEN Rejected("missing token") ELSE verify_token(token, t)

\* -------------------------------------------------------------------- jobs
PENDING == "pending"
RUNNING == "running"
DONE == "done"
FAILED == "failed"
CANCELED == "canceled"
TIMED_OUT == "timed_out"
Terminal == {DONE, FAILED, TIMED_OUT, CANCELED}

\* progress in hundredths: 0.0, 0.01 and 1.0
P0 == 0
P001 == 1
P1 == 100

\* Job(job_id=..., session_id=..., timeout_s=...): the dataclass defaults.
\* hist and stamps are not fields of the class: hist records the states the job
\* has been in, stamps counts the assignments to finished_at.
NewJobRunning(job_id, session_id, timeout_s, t) ==
    [job_id |-> job_id, session_id |-> session_id, created_at |-> t,
     started_at |-> Some(t), finished_at |-> None, state |-> RUNNING, progress |-> P0,
     status |-> "", result |-> None, error |-> None, error_type |-> None,
     traceback |-> None, timeout_s |-> timeout_s, hist |-> <<RUNNING>>, stamps |-> 0]

NewJob(job_id, session_id, timeout_s, t) ==
    [job_id |-> job_id, session_id |-> session_id, created_at |-> t,
     started_at |-> None, finished_at |-> None, state |-> PENDING, progress |-> P0,
     status |-> "", result |-> None, error |-> None, error_type |-> None,
     traceback |-> None, timeout_s |-> timeout_s, hist |-> <<PENDING>>, stamps |-> 0]

jk(sid, jid) == <<sid, jid>>

\* _JOBS.get(key): JOBS is the key set of the dict; the value under
\* (sid, jid) is the Job object job[jid] stored there by the launch.
Lookup_any_session(keys, sid, jid) ==
    IF \E k \in keys : k[2] = jid THEN Some(jid) ELSE None

Lookup(keys, sid, jid) ==
    IF jk(sid, jid) \in keys THEN Some(jid) ELSE None

\* uuid.uuid4(): an id no job has had.
FreshJobIds == JobIds \ ids

SetState(j, s) == [j EXCEPT !.state = s, !.hist = Append(@, s)]

Stamp_skipped(j, t) == j

Stamp(j, t) == [j EXCEPT !.finished_at = Some(t), !.stamps = @ + 1]

\* ------------------------------------------------------ the job's coroutine
\* _work up to the call of fn: RUNNING, started_at, progress 0.01.
WorkBegin(j, t) ==
    [SetState(j, RUNNING) EXCEPT !.started_at = Some(t), !.progress = P001]

WorkDone_result_unset(j, result, t) ==
    Stamp(SetState([j EXCEPT !.progress = P1], DONE), t)

\* _work after fn returned: result, progress 1.0, DONE, finished_at.
WorkDone(j, result, t) ==
    Stamp(SetState([j EXCEPT !.result = Some(result), !.progress = P1], DONE), t)

Finally_unguarded(j, t) ==
    IF j.state \in Terminal THEN Stamp(j, t) ELSE j

\* jobs.py, _run_with_timeout: the finally block.
Finally(j, t) ==
    IF IsNone(j.finished_at) /\ j.state \in Terminal THEN Stamp(j, t) ELSE j

ErrorText_generic(exc, msg) ==
    CASE exc = "TimeoutError" -> "timed out"
      [] exc = "CancelledError" -> "canceled"
      [] OTHER -> "failed"

ErrorText(exc, msg) ==
    CASE exc = "TimeoutError" -> "timed out"
      [] exc = "CancelledError" -> "canceled"
      [] OTHER -> msg

StateOf_timeout_as_failed(exc) ==
    CASE exc = "CancelledError" -> CANCELED
      [] OTHER -> FAILED

StateOf(exc) ==
    CASE exc = "TimeoutError" -> TIMED_OUT
      [] exc = "CancelledError" -> CANCELED
      [] OTHER -> FAILED

\* jobs.py, _run_with_timeout: the except clause that catches exc, then finally.
Except_jobs(j, exc, msg, t) ==
    LET j1 == [SetState(j, StateOf(exc)) EXCEPT
                 !.error = Some(ErrorText(exc, msg)),
                 !.error_type = Some(exc),
                 !.traceback = IF StateOf(exc) = FAILED THEN Some("traceback") ELSE @]
    IN Finally(j1, t)

\* long_job_server.py, _run_with_timeout: the except clause that catches exc.
Except_server(j, exc, msg, t) ==
    Stamp([SetState(j, StateOf(exc)) EXCEPT !.error = Some(ErrorText(exc, msg))], t)

Except(j, exc, msg, t) ==
    IF impl = "jobs" THEN Except_jobs(j, exc, msg, t) ELSE Except_server(j, exc, msg, t)

\* A task: pc is where the coroutine _run_with_timeout stands,
\*   "created"   scheduled by create_task, not yet run
\*   "tmo0"      in wait_for with timeout_s <= 0, awaiting the cancelled work
\*   "running"   suspended inside fn
\*   "returning"  in wait_for, about to be woken: the work, which wait_for ran
\*                as a task of its own, has returned
\*   "finished"  returned; "cancelled": ended by CancelledError
\* must_cancel: Task.cancel() was called and is not yet delivered; expiring:
\* the deadline timer has fired; kw_session_id: call_kwargs["session_id"].
\* cbq: the fractions _progress_cb has handed to loop.call_soon_threadsafe and
\* the loop has not yet assigned; calls counts the calls of _progress_cb.
NewTask(kw_session_id) ==
    [pc |-> "created", must_cancel |-> FALSE, expiring |-> FALSE,
     kw_session_id |-> kw_session_id, cbq |-> <<>>, calls |-> 0]

TaskDone(tk) == tk.pc \in {"finished", "cancelled"}

\* A task that has ended with pc: its coroutine frame, and call_kwargs with it,
\* is released; what it queued on the loop stays queued.
EndTask(tk, pc) ==
    [pc |-> pc, must_cancel |-> FALSE, expiring |-> FALSE, kw_session_id |-> None,
     cbq |-> tk.cbq, calls |-> 0]


\* How the task ends after _run_with_timeout caught exc: the clause for
\* CancelledError ends with raise, the others fall through to the return.
TaskEnd_swallowed(exc) == "finished"

TaskEnd(exc) == IF exc = "CancelledError" THEN "cancelled" ELSE "finished"

\* ---------------------------------------------------------------- answers
\* What a handler gives back: the dict it returns or the error it raises.
MissingTokenAnswer == [kind |-> "error", error |-> "missing token"]
AuthErrorAnswer(error) == [kind |-> "ValueError", error |-> error]

AuthAnswer(token, a) ==
    IF token.form = "empty" THEN MissingTokenAnswer ELSE AuthErrorAnswer(a.error)

\* long_job_tools.py raises ToolError, long_job_server.py returns an error dict.
NotFound ==
    IF impl = "jobs"
    THEN [kind |-> "ToolError", error |-> "No such job for this session"]
    ELSE [kind |-> "error", error |-> "no such job for this session"]

JobInfo(j) ==
    IF impl = "jobs"
    THEN [kind |-> "job_info", job_id |-> j.job_id, state |-> j.state,
          progress |-> j.progress, status |-> j.status]
    ELSE [kind |-> "job_info", job_id |-> j.job_id, state |-> j.state,
          progress |-> j.progress]

StatusAnswer(j) ==
    IF impl = "jobs"
    THEN [kind |-> "status", job_id |-> j.job_id,
          state |-> j.state, progress |-> j.progress, status |-> j.status,
          created_at |-> j.created_at, started_at |-> j.started_at,
          finished_at |-> j.finished_at, error |-> j.error]
    ELSE [kind |-> "status", job_id |-> j.job_id,
          state |-> j.state, progress |-> j.progress,
          created_at |-> j.created_at, started_at |-> j.started_at,
          finished_at |-> j.finished_at, error |-> j.error]

NotComplete(j) ==
    [kind |-> "not_complete", job_id |-> j.job_id, state |-> j.state,
     error |-> "job not complete"]

Outcome_jobs(j) ==
    [kind |-> "outcome", job_id |-> j.job_id, state |-> j.state,
     result |-> IF j.state = DONE THEN j.result ELSE None,
     error |-> j.error, error_type |-> j.error_type]

Outcome_server(j) ==
    IF j.state = DONE
    THEN [kind |-> "outcome", job_id |-> j.job_id, result |-> j.result]
    ELSE [kind |-> "outcome", job_id |-> j.job_id, error |-> j.error, state |-> j.state]

CancelRequested(job_id) ==
    [kind |-> "cancel", job_id |-> job_id, state |-> "cancel_requested"]

CancelState(j) == [kind |-> "cancel", job_id |-> j.job_id, state |-> j.state]

\* ------------------------------------------------------------------- store
\* sweep_jobs: the keys it leaves in _JOBS.
sweep_jobs_all(keys, max_age_s, keep_running, t) ==
    {key \in keys :
        LET j == job[key[2]]
            ts == IF IsNone(j.finished_at) THEN j.created_at ELSE Val(j.finished_at)
            age == t - ts
        IN age <= max_age_s}

\* A sweep that removes the job whose age is max_age_s.
sweep_jobs_at_age(keys, max_age_s, keep_running, t) ==
    {key \in keys :
        LET j == job[key[2]]
            ts == IF IsNone(j.finished_at) THEN j.created_at ELSE Val(j.finished_at)
            age == t - ts
        IN \/ age < max_age_s
           \/ keep_running /\ j.state \in {PENDING, RUNNING}}

sweep_jobs(keys, max_age_s, keep_running, t) ==
    {key \in keys :
        LET j == job[key[2]]
            ts == IF IsNone(j.finished_at) THEN j.created_at ELSE Val(j.finished_at)
            age == t - ts
        IN \/ age <= max_age_s
           \/ keep_running /\ j.state \in {PENDING, RUNNING}}

\* sweep_jobs: the number it returns, counted as its loop counts it, one
\* key of list(_JOBS.items()) after the other.
RECURSIVE sweep_jobs_removed(_, _, _, _)
sweep_jobs_removed(keys, max_age_s, keep_running, t) ==
    IF keys = {} THEN 0
    ELSE LET key == CHOOSE k \in keys : TRUE
             j == job[key[2]]
             ts == IF IsNone(j.finished_at) THEN j.created_at ELSE Val(j.finished_at)
             age == t - ts
             rest == sweep_jobs_removed(keys \ {key}, max_age_s, keep_running, t)
         IN IF age <= max_age_s THEN rest
            ELSE IF keep_running /\ j.state \in {PENDING, RUNNING} THEN rest
            ELSE rest + 1

\* A pop that leaves the key in the dict.
pop_missed(keys, key) == keys

\* _JOBS.pop(key, None)
pop(keys, key) == keys \ {key}

\* A Job that is in _JOBS no more, whose task is done and which no queued
\* callback refers to is referenced by nothing; Python frees it and its task.
Alive(keys) ==
    {jid \in DOMAIN job :
        \/ \E key \in keys : key[2] = jid
        \/ ~TaskDone(task[jid])
        \/ task[jid].cbq # <<>>}

Collect(keys) ==
    /\ job' = [jid \in Alive(keys) |-> job[jid]]
    /\ task' = [jid \in Alive(keys) |-> task[jid]]

\* ------------------------------------------------------------------ launch
\* The session_id the forwarded call carries.  jobs.py forwards the caller's
\* keyword arguments as they are; long_job_server.py adds the verified session
\* id with setdefault.
CallKwargs_jobs(sid_arg, session_id) == sid_arg

CallKwargs_server(sid_arg, session_id) ==
    IF IsNone(sid_arg) THEN Some(session_id) ELSE sid_arg

CallKwargs(sid_arg, session_id) ==
    IF impl = "jobs" THEN CallKwargs_jobs(sid_arg, session_id)
    ELSE CallKwargs_server(sid_arg, session_id)

\* str(uuid.uuid4()) as the launch draws it: the least id not yet handed out.
NextJobId == CHOOSE i \in FreshJobIds : \A k \in FreshJobIds : i <= k

\* The launch wrapper of _make_longjob_launch_wrapper, called with token,
\* timeout_s and, for session_id, sid_arg (None: the caller gave none).
wrapper_answer(token, timeout_s, sid_arg) ==
    LET a == Auth(token, now)
    IN IF ~a.ok THEN AuthAnswer(token, a)
       ELSE JobInfo(NewJob(NextJobId, a.sid, timeout_s, now))

wrapper(token, timeout_s, sid_arg) ==
    LET a == Auth(token, now)
    IN IF ~a.ok
       THEN UNCHANGED server
       ELSE LET session_id == a.sid
                job_id == NextJobId
            IN /\ FreshJobIds # {}
               /\ job' = job @@ (job_id :> NewJob(job_id, session_id, timeout_s, now))
               /\ JOBS' = JOBS \cup {jk(session_id, job_id)}
               /\ task' = task @@ (job_id :> NewTask(CallKwargs(sid_arg, session_id)))
               /\ ids' = ids \cup {job_id}
               /\ UNCHANGED <<impl, now, ticks, served>>

\* ------------------------------------------------------------ the job task
\* The event loop runs the task for the first time.  A task cancelled before
\* its first step ends without entering _run_with_timeout; wait_for with
\* timeout_s <= 0 cancels the work before it starts; otherwise _work runs up
\* to the call of fn, which receives call_kwargs.
TaskStart(jid) ==
    /\ jid \in DOMAIN task
    /\ task[jid].pc = "created"
    /\ LET tk == task[jid]
           j == job[jid]
       IN IF tk.must_cancel
          THEN /\ task' = [task EXCEPT ![jid] = EndTask(@, "cancelled")]
               /\ UNCHANGED job
          ELSE IF ~IsNone(j.timeout_s) /\ Val(j.timeout_s) <= 0
          THEN /\ task' = [task EXCEPT ![jid].pc = "tmo0"]
               /\ UNCHANGED job
          ELSE /\ task' = [task EXCEPT ![jid].pc = "running"]
               /\ job' = [job EXCEPT ![jid] = WorkBegin(j, now)]
    /\ UNCHANGED <<impl, now, ticks, JOBS, ids, served>>

\* wait_for with timeout_s <= 0 resumes after the cancelled work ended:
\* TimeoutError, unless the task itself was cancelled while it waited.
TaskTmo0(jid) ==
    /\ jid \in DOMAIN task
    /\ task[jid].pc = "tmo0"
    /\ IF task[jid].must_cancel
       THEN /\ task' = [task EXCEPT ![jid] = EndTask(@, TaskEnd("CancelledError"))]
            /\ job' = [job EXCEPT ![jid] = Except(@, "CancelledError", "", now)]
       ELSE /\ task' = [task EXCEPT ![jid] = EndTask(@, TaskEnd("TimeoutError"))]
            /\ job' = [job EXCEPT ![jid] = Except(@, "TimeoutError", "", now)]
    /\ UNCHANGED <<impl, now, ticks, JOBS, ids, served>>

\* The deadline of wait_for(coro, timeout=job.timeout_s) passes while fn runs.
TimerFire(jid) ==
    /\ jid \in DOMAIN task
    /\ task[jid].pc = "running"
    /\ ~task[jid].expiring
    /\ ~IsNone(job[jid].timeout_s)
    /\ now >= Val(job[jid].started_at) + Val(job[jid].timeout_s)
    /\ task' = [task EXCEPT ![jid].expiring = TRUE]
    /\ UNCHANGED <<impl, now, ticks, JOBS, job, ids, served>>

\* A callback that assigns job.progress itself, on the thread that calls it.
_progress_cb_direct(jid, fraction) ==
    /\ impl = "jobs"
    /\ jid \in DOMAIN task
    /\ task[jid].pc = "running"
    /\ ~task[jid].must_cancel /\ ~task[jid].expiring
    /\ task[jid].calls < MaxProgressCalls
    /\ LET f == IF fraction < P0 THEN P0 ELSE IF fraction > P1 THEN P1 ELSE fraction
       IN /\ job' = [job EXCEPT ![jid].progress = f, ![jid].status = ""]
          /\ task' = [task EXCEPT ![jid].calls = @ + 1]
    /\ UNCHANGED <<impl, now, ticks, JOBS, ids, served>>

\* fn, called with progress_cb, reports a fraction: _progress_cb clamps it to
\* [0, 1] and queues the assignment on the loop.  long_job_server.py passes no
\* progress_cb.
_progress_cb(jid, fraction) ==
    /\ impl = "jobs"
    /\ jid \in DOMAIN task
    /\ task[jid].pc = "running"
    /\ ~task[jid].must_cancel /\ ~task[jid].expiring
    /\ task[jid].calls < MaxProgressCalls
    /\ LET f == IF fraction < P0 THEN P0 ELSE IF fraction > P1 THEN P1 ELSE fraction
       IN task' = [task EXCEPT ![jid].cbq = Append(@, f), ![jid].calls = @ + 1]
    /\ UNCHANGED <<impl, now, ticks, JOBS, job, ids, served>>

\* The loop runs the callbacks _progress_cb queued: setattr(job, "progress", f)
\* and setattr(job, "status", message), message being "".
SetProgress(jid) ==
    /\ jid \in DOMAIN task
    /\ task[jid].cbq # <<>>
    /\ LET job1 == [job EXCEPT ![jid].progress = Head(task[jid].cbq), ![jid].status = ""]
           task1 == [task EXCEPT ![jid].cbq = Tail(@)]
           keep == {i \in DOMAIN job :
                       \/ \E key \in JOBS : key[2] = i
                       \/ ~TaskDone(task1[i])
                       \/ task1[i].cbq # <<>>}
       IN /\ job' = [i \in keep |-> job1[i]]
          /\ task' = [i \in keep |-> task1[i]]
    /\ UNCHANGED <<impl, now, ticks, JOBS, ids, served>>

\* fn returns: the rest of _work and, in jobs.py, the finally block.  A
\* coroutine function (is_coro) may return in the step in which it called
\* progress_cb; a function run by asyncio.to_thread has its result delivered
\* after the callbacks it queued.  Under wait_for the work is, up to Python
\* 3.11, a task of its own (inner_task): when it has returned, the task of the
\* job is still to be woken.
FnReturns(jid, is_coro, inner_task, result) ==
    /\ jid \in DOMAIN task
    /\ task[jid].pc = "running"
    /\ ~task[jid].must_cancel /\ ~task[jid].expiring
    /\ is_coro \/ task[jid].cbq = <<>>
    /\ inner_task => ~IsNone(job[jid].timeout_s)
    /\ IF inner_task
       THEN /\ task' = [task EXCEPT ![jid].pc = "returning"]
            /\ job' = [job EXCEPT ![jid] = WorkDone(@, result, now)]
       ELSE /\ task' = [task EXCEPT ![jid] = EndTask(@, "finished")]
            /\ job' = [job EXCEPT ![jid] =
                          IF impl = "jobs" THEN Finally(WorkDone(@, result, now), now)
                          ELSE WorkDone(@, result, now)]
    /\ UNCHANGED <<impl, now, ticks, JOBS, ids, served>>

\* fn as the launch sees it: a callable that returns 42.
FnReturn(jid, is_coro, inner_task) == FnReturns(jid, is_coro, inner_task, 42)

\* The task of the job is woken after its work returned: wait_for hands the
\* result back, also when the task was cancelled meanwhile, and
\* _run_with_timeout ends, in jobs.py through its finally block.
TaskReturn(jid) ==
    /\ jid \in DOMAIN task
    /\ task[jid].pc = "returning"
    /\ LET job1 == [job EXCEPT ![jid] = IF impl = "jobs" THEN Finally(@, now) ELSE @]
           task1 == [task EXCEPT ![jid] = EndTask(@, "finished")]
           keep == {i \in DOMAIN job :
                       \/ \E key \in JOBS : key[2] = i
                       \/ ~TaskDone(task1[i])
                       \/ task1[i].cbq # <<>>}
       IN /\ job' = [i \in keep |-> job1[i]]
          /\ task' = [i \in keep |-> task1[i]]
    /\ UNCHANGED <<impl, now, ticks, JOBS, ids, served>>

\* fn raises exc, an Exception("boom") or a TimeoutError of its own.
FnRaise(jid, exc, is_coro) ==
    /\ jid \in DOMAIN task
    /\ task[jid].pc = "running"
    /\ ~task[jid].must_cancel /\ ~task[jid].expiring
    /\ is_coro \/ task[jid].cbq = <<>>
    /\ task' = [task EXCEPT ![jid] = EndTask(@, TaskEnd(exc))]
    /\ job' = [job EXCEPT ![jid] = Except(@, exc, "boom", now)]
    /\ UNCHANGED <<impl, now, ticks, JOBS, ids, served>>

\* A pending cancellation is thrown into the suspended fn, which lets it
\* through.  Raised by the deadline alone it becomes TimeoutError; with a
\* cancel request it stays CancelledError and is re-raised.  The task is woken
\* after the callbacks queued before the cancellation.
TaskCancelled(jid) ==
    /\ jid \in DOMAIN task
    /\ task[jid].pc = "running"
    /\ task[jid].must_cancel \/ task[jid].expiring
    /\ task[jid].cbq = <<>>
    /\ IF task[jid].must_cancel
       THEN /\ task' = [task EXCEPT ![jid] = EndTask(@, TaskEnd("CancelledError"))]
            /\ job' = [job EXCEPT ![jid] = Except(@, "CancelledError", "", now)]
       ELSE /\ task' = [task EXCEPT ![jid] = EndTask(@, TaskEnd("TimeoutError"))]
            /\ job' = [job EXCEPT ![jid] = Except(@, "TimeoutError", "", now)]
    /\ UNCHANGED <<impl, now, ticks, JOBS, ids, served>>

\* -------------------------------------------------------- chunked execution
\* youtube_audio_json_async as the callable of a job.  Each job transcribes a
\* video of its own that has no transcript cache entry.  run[jid]:
\*   pc       where the coroutine is suspended:
\*            "download"    await asyncio.to_thread(download_audio, ...)
\*            "yield0"      await asyncio.sleep(0) after the download
\*            "checkpoint"  await asyncio.sleep(0) at the head of the chunk loop
\*            "chunk"       await loop.run_in_executor(ex, ...)
\*            "returned", "interrupted"; "none" before the callable is called
\*   chunks   the list chunks of transcribe_with_whisper_async
\*   begun    the chunks handed to the worker thread so far
\*   thread   what a worker thread is doing: "idle", "download", "chunk"
\*   scratch  whether the downloaded audio file exists
\*   cache    the transcript cache file, returned: what the callable returned
NewRun ==
    [pc |-> "none", chunks |-> <<>>, begun |-> 0, thread |-> "idle",
     scratch |-> FALSE, cache |-> None, returned |-> None]

\* json.dumps(chunks, ...): the text of the list.
json_dumps(chunks) == [json |-> chunks]

\* An interruption that leaves what was transcribed so far in the cache file.
Interrupt_keeps_partial(r) ==
    [r EXCEPT !.pc = "interrupted", !.scratch = FALSE, !.thread = "idle",
              !.cache = Some(r.chunks)]

\* CancelledError thrown into the coroutine where it is suspended.  At the
\* download the except clause logs and re-raises, and the thread goes on; at
\* the sleep(0) after the download no handler is in reach; in the chunk loop
\* the with block waits for the worker thread and the except clause of
\* fetch_audio_transcript_async unlinks the audio file.
Interrupt(r) ==
    CASE r.pc = "download" -> [r EXCEPT !.pc = "interrupted"]
      [] r.pc = "yield0" -> [r EXCEPT !.pc = "interrupted"]
      [] r.pc = "checkpoint" -> [r EXCEPT !.pc = "interrupted", !.scratch = FALSE]
      [] r.pc = "chunk" ->
            [r EXCEPT !.pc = "interrupted", !.scratch = FALSE, !.thread = "idle"]
      [] OTHER -> r

\* The task's first step: _work calls the callable, which finds no cache
\* entry and hands download_audio to a thread.
RunStart(jid) ==
    /\ TaskStart(jid)
    /\ run' = IF task'[jid].pc = "running"
              THEN [run EXCEPT ![jid].pc = "download", ![jid].thread = "download"]
              ELSE run

\* The thread running download_audio writes the audio file and ends, whether
\* or not the coroutine still waits for it.
download_audio(jid) ==
    /\ run[jid].thread = "download"
    /\ run' = [run EXCEPT ![jid].thread = "idle", ![jid].scratch = TRUE]
    /\ UNCHANGED <<impl, now, ticks, JOBS, job, task, ids, served>>

Resumable(jid) ==
    /\ jid \in DOMAIN task
    /\ task[jid].pc = "running"
    /\ ~task[jid].must_cancel /\ ~task[jid].expiring
    /\ run[jid].thread = "idle"

\* fetch_audio_transcript_async resumes with the audio path and yields once.
DownloadReturn(jid) ==
    /\ Resumable(jid)
    /\ run[jid].pc = "download"
    /\ run' = [run EXCEPT ![jid].pc = "yield0"]
    /\ UNCHANGED <<impl, now, ticks, JOBS, job, task, ids, served>>

\* transcribe_with_whisper_async is entered and runs to the checkpoint at the
\* head of its loop.
transcribe_with_whisper_async(jid) ==
    /\ Resumable(jid)
    /\ run[jid].pc = "yield0"
    /\ run' = [run EXCEPT ![jid].pc = "checkpoint"]
    /\ UNCHANGED <<impl, now, ticks, JOBS, job, task, ids, served>>

\* After the checkpoint the next chunk is handed to the worker thread.
ChunkSubmit(jid) ==
    /\ Resumable(jid)
    /\ run[jid].pc = "checkpoint"
    /\ run' = [run EXCEPT ![jid].pc = "chunk", ![jid].thread = "chunk",
                           ![jid].begun = @ + 1]
    /\ UNCHANGED <<impl, now, ticks, JOBS, job, task, ids, served>>

\* The worker thread transcribes the chunk it was given.
_transcribe_chunk_in_worker_thread(jid) ==
    /\ run[jid].thread = "chunk"
    /\ run' = [run EXCEPT ![jid].thread = "idle"]
    /\ UNCHANGED <<impl, now, ticks, JOBS, job, task, ids, served>>

\* The coroutine resumes with the chunk's output and appends it; chunks remain:
\* on to the next checkpoint.
ChunkAppend(jid) ==
    /\ Resumable(jid)
    /\ run[jid].pc = "chunk"
    /\ Len(run[jid].chunks) + 1 < NumChunks
    /\ run' = [run EXCEPT ![jid].pc = "checkpoint",
                           ![jid].chunks = Append(@, run[jid].begun)]
    /\ UNCHANGED <<impl, now, ticks, JOBS, job, task, ids, served>>

\* The last chunk is appended: the loop breaks, the audio file is unlinked,
\* the chunks are written to the cache file and returned as JSON, and _work
\* stores what the callable returned.
ChunkReturn(jid, inner_task) ==
    /\ Resumable(jid)
    /\ run[jid].pc = "chunk"
    /\ Len(run[jid].chunks) + 1 = NumChunks
    /\ LET chunks == Append(run[jid].chunks, run[jid].begun)
       IN /\ run' = [run EXCEPT ![jid].pc = "returned", ![jid].chunks = chunks,
                                 ![jid].scratch = FALSE, ![jid].cache = Some(chunks),
                                 ![jid].returned = Some(json_dumps(chunks))]
          /\ FnReturns(jid, TRUE, inner_task, json_dumps(chunks))

\* A cancel request or the deadline reaches the suspended callable.
RunCancelled(jid) ==
    /\ TaskCancelled(jid)
    /\ run' = [run EXCEPT ![jid] = Interrupt(@)]

\* ------------------------------------------------------------ the chunk loop
\* transcribe_with_whisper and transcribe_with_whisper_async split the audio
\* in the same way.  int(seconds * sample_rate):
to_samples(duration) == duration \div UnitsPerSample

Min(a, b) == IF a <= b THEN a ELSE b

\* A step taken as the difference, with neither guard.
effective_step_unguarded(samples_per_chunk, overlap_samples) ==
    samples_per_chunk - overlap_samples

\* overlap_samples after the guard against overlap >= duration.
effective_overlap(samples_per_chunk, overlap_samples) ==
    IF overlap_samples >= samples_per_chunk THEN 0 ELSE overlap_samples

\* step: samples_per_chunk - overlap_samples after the guard, and
\* samples_per_chunk should that not be positive.
effective_step(samples_per_chunk, overlap_samples) ==
    LET step == samples_per_chunk - effective_overlap(samples_per_chunk, overlap_samples)
    IN IF step <= 0 THEN samples_per_chunk ELSE step

\* A range that skips every other start.
range_next_skipping(start_sample, step) == start_sample + 2 * step

\* range(0, num_samples, step): the start after start_sample.
range_next(start_sample, step) == start_sample + step

\* The function is called on an audio of num_samples samples.  split:
\*   pc  "loop" at the head of the for loop, "returned", or "ValueError"
\*   chunks  the list chunks; the output of whisper.transcribe on
\*           audio[start_sample:end_sample] is written as the samples
\*           [lo, hi) it was given
transcribe_with_whisper(num_samples, chunk_duration, overlap) ==
    /\ split.pc = "none"
    /\ LET samples_per_chunk == to_samples(chunk_duration)
           overlap_samples == to_samples(overlap)
           loop == [pc |-> "loop", num_samples |-> num_samples,
                    chunk_duration |-> chunk_duration, overlap |-> overlap,
                    samples_per_chunk |-> samples_per_chunk,
                    overlap_samples |-> effective_overlap(samples_per_chunk, overlap_samples),
                    step |-> effective_step(samples_per_chunk, overlap_samples),
                    start_sample |-> 0, chunks |-> <<>>]
       IN split' =
            IF samples_per_chunk <= 0
            THEN [pc |-> "ValueError", num_samples |-> num_samples,
                  chunk_duration |-> chunk_duration, overlap |-> overlap]
            ELSE IF num_samples <= 0 THEN [loop EXCEPT !.pc = "returned"]
            ELSE loop
    /\ UNCHANGED <<impl, now, ticks, JOBS, job, task, ids, served, run, client, polite>>

\* One pass of the for loop: the segment, the break on an empty segment, the
\* transcription, the append, the break when the end of the audio is reached,
\* and the next value of the range.
transcribe_chunk ==
    /\ split.pc = "loop"
    /\ LET start_sample == split.start_sample
           end_sample == start_sample + split.samples_per_chunk
           hi == Min(split.num_samples, end_sample)
           chunk == [lo |-> start_sample, hi |-> hi]
           next == range_next(start_sample, split.step)
       IN split' =
            IF hi - start_sample <= 0 THEN [split EXCEPT !.pc = "returned"]
            ELSE IF end_sample >= split.num_samples
            THEN [split EXCEPT !.pc = "returned", !.chunks = Append(@, chunk)]
            ELSE IF next >= split.num_samples
            THEN [split EXCEPT !.pc = "returned", !.chunks = Append(@, chunk),
                               !.start_sample = next]
            ELSE [split EXCEPT !.chunks = Append(@, chunk), !.start_sample = next]
    /\ UNCHANGED <<impl, now, ticks, JOBS, job, task, ids, served, run, client, polite>>

\* ------------------------------------------------------------- control API
get_job_status_answer(token, job_id) ==
    LET a == Auth(token, now)
        found == IF a.ok THEN Lookup(JOBS, a.sid, job_id) ELSE None
    IN IF ~a.ok THEN AuthAnswer(token, a)
       ELSE IF IsNone(found) THEN NotFound
       ELSE StatusAnswer(job[Val(found)])

get_job_status_popping(token, job_id) ==
    LET a == Auth(token, now)
        found == IF a.ok THEN Lookup(JOBS, a.sid, job_id) ELSE None
    IN /\ JOBS' = IF IsNone(found) THEN JOBS ELSE JOBS \ {jk(a.sid, job_id)}
       /\ UNCHANGED <<impl, now, ticks, job, task, ids, served>>

\* get_job_status reads _JOBS and the Job and writes nothing.
get_job_status(token, job_id) ==
    UNCHANGED server

\* long_job_tools.py: sweep_jobs(max_age_s=3600, keep_running=True), then the
\* lookup and, for a terminal job, the pop.  The sweep is inside the function
\* that requires_token wraps: a rejected token never reaches it.
get_job_result_jobs_answer(token, job_id) ==
    LET a == Auth(token, now)
        swept == sweep_jobs(JOBS, SweepMaxAge, TRUE, now)
        found == IF a.ok THEN Lookup(swept, a.sid, job_id) ELSE None
    IN IF ~a.ok THEN AuthAnswer(token, a)
       ELSE IF IsNone(found) THEN NotFound
       ELSE IF job[Val(found)].state \in Terminal THEN Outcome_jobs(job[Val(found)])
       ELSE NotComplete(job[Val(found)])

get_job_result_jobs(token, job_id) ==
    LET a == Auth(token, now)
        swept == sweep_jobs(JOBS, SweepMaxAge, TRUE, now)
        found == IF a.ok THEN Lookup(swept, a.sid, job_id) ELSE None
    IN /\ impl = "jobs"
       /\ IF ~a.ok
          THEN UNCHANGED <<JOBS, job, task, served>>
          ELSE IF IsNone(found)
          THEN /\ JOBS' = swept
               /\ Collect(swept)
               /\ UNCHANGED served
          ELSE IF job[Val(found)].state \in Terminal
          THEN /\ JOBS' = pop(swept, jk(a.sid, job_id))
               /\ Collect(pop(swept, jk(a.sid, job_id)))
               /\ served' = [served EXCEPT ![job_id] = @ + 1]
          ELSE /\ JOBS' = swept
               /\ Collect(swept)
               /\ UNCHANGED served
       /\ UNCHANGED <<impl, now, ticks, ids>>

\* long_job_server.py: no sweep.
get_job_result_server_answer(token, job_id) ==
    LET a == Auth(token, now)
        found == IF a.ok THEN Lookup(JOBS, a.sid, job_id) ELSE None
    IN IF ~a.ok THEN AuthAnswer(token, a)
       ELSE IF IsNone(found) THEN NotFound
       ELSE IF job[Val(found)].state \in Terminal THEN Outcome_server(job[Val(found)])
       ELSE NotComplete(job[Val(found)])

get_job_result_server(token, job_id) ==
    LET a == Auth(token, now)
        found == IF a.ok THEN Lookup(JOBS, a.sid, job_id) ELSE None
    IN /\ impl = "long_job_server"
       /\ IF ~a.ok \/ IsNone(found)
          THEN UNCHANGED <<JOBS, job, task, served>>
          ELSE IF job[Val(found)].state \in Terminal
          THEN /\ JOBS' = pop(JOBS, jk(a.sid, job_id))
               /\ Collect(pop(JOBS, jk(a.sid, job_id)))
               /\ served' = [served EXCEPT ![job_id] = @ + 1]
          ELSE UNCHANGED <<JOBS, job, task, served>>
       /\ UNCHANGED <<impl, now, ticks, ids>>

get_job_result_answer(token, job_id) ==
    IF impl = "jobs" THEN get_job_result_jobs_answer(token, job_id)
    ELSE get_job_result_server_answer(token, job_id)

get_job_result(token, job_id) ==
    \/ get_job_result_jobs(token, job_id)
    \/ get_job_result_server(token, job_id)

\* cancel_job: job.task.cancel() when the task is not done.
cancel_job_answer(token, job_id) ==
    LET a == Auth(token, now)
        found == IF a.ok THEN Lookup(JOBS, a.sid, job_id) ELSE None
    IN IF ~a.ok THEN AuthAnswer(token, a)
       ELSE IF IsNone(found) THEN NotFound
       ELSE IF ~TaskDone(task[Val(found)]) THEN CancelRequested(job_id)
       ELSE CancelState(job[Val(found)])

cancel_job(token, job_id) ==
    LET a == Auth(token, now)
        found == IF a.ok THEN Lookup(JOBS, a.sid, job_id) ELSE None
    IN /\ IF ~a.ok \/ IsNone(found)
          THEN UNCHANGED task
          ELSE IF ~TaskDone(task[Val(found)])
          THEN task' = [task EXCEPT ![Val(found)].must_cancel = TRUE]
          ELSE UNCHANGED task
       /\ UNCHANGED <<impl, now, ticks, JOBS, job, ids, served>>

\* -------------------------------------------------------------- the client
\* self.call_tool(...): the Client raises when the tool raised (ValueError of
\* verify_token, ToolError) and otherwise returns the dict as .data.
call_tool_raises(answer) == answer.kind \in {"ValueError", "ToolError"}

\* payload.get("state"), s.get("state")
get_state(data) == IF "state" \in DOMAIN data THEN Some(data.state) ELSE None

\* call_long_tool_and_get_result(tool_name, args): the launch.  client:
\*   pc "polling" in the while loop, "ack" after its break, "returned", "raised"
\*   token args["token"]; job_id: launch_payload["job_id"]
\*   terminal_seen: the state the last poll reported, if terminal
\*   result_calls counts the calls of get_job_result, status_calls whether
\*   get_job_status was called
client_launch(token, timeout_s) ==
    /\ client.pc = "none"
    /\ LET launch == wrapper_answer(token, timeout_s, None)
           c == [pc |-> "polling", token |-> token, job_id |-> None,
                 terminal_seen |-> None, result_calls |-> 0, polled |-> FALSE,
                 outcome |-> None]
       IN client' =
            IF call_tool_raises(launch) THEN [c EXCEPT !.pc = "raised"]
            ELSE IF "job_id" \notin DOMAIN launch
            THEN [c EXCEPT !.pc = "returned", !.outcome = Some(launch)]
            ELSE [c EXCEPT !.job_id = Some(launch.job_id)]
    /\ wrapper(token, timeout_s, None)
    /\ UNCHANGED <<run, split, polite>>

\* One pass of the polling loop: get_job_status, break on a terminal state,
\* else sleep poll_s.
client_poll ==
    /\ client.pc = "polling"
    /\ LET status == get_job_status_answer(client.token, Val(client.job_id))
           state == IF call_tool_raises(status) THEN None ELSE get_state(status)
       IN client' =
            IF call_tool_raises(status) THEN [client EXCEPT !.pc = "raised", !.polled = TRUE]
            ELSE IF ~IsNone(state) /\ Val(state) \in {DONE, FAILED, TIMED_OUT, CANCELED}
            THEN [client EXCEPT !.pc = "ack", !.polled = TRUE, !.terminal_seen = state]
            ELSE [client EXCEPT !.polled = TRUE]
    /\ get_job_status(client.token, Val(client.job_id))
    /\ UNCHANGED <<run, split, polite>>

\* After the loop: get_job_result, return the result when its state is done,
\* raise RuntimeError otherwise.
client_ack ==
    /\ client.pc = "ack"
    /\ LET result == get_job_result_answer(client.token, Val(client.job_id))
           state == IF call_tool_raises(result) THEN None ELSE get_state(result)
       IN client' =
            IF call_tool_raises(result)
            THEN [client EXCEPT !.pc = "raised", !.result_calls = @ + 1]
            ELSE IF state = Some(DONE)
            THEN [client EXCEPT !.pc = "returned", !.result_calls = @ + 1,
                                !.outcome = Some(result)]
            ELSE [client EXCEPT !.pc = "raised", !.result_calls = @ + 1,
                                !.outcome = Some(result)]
    /\ get_job_result(client.token, Val(client.job_id))
    /\ UNCHANGED <<run, split, polite>>

\* ------------------------------------------------------------ polite calls
\* Texts are sequences of characters.  str(e) of the errors an attempt raises:
\* Msg429 is "HTTP 429"
Msg429 == <<"H", "T", "T", "P", " ", "4", "2", "9">>
\* MsgTooMany is "Too Many Requests"
MsgTooMany == <<"T", "o", "o", " ", "M", "a", "n", "y", " ", "R", "e", "q", "u", "e", "s", "t", "s">>
\* MsgBlocked is "RequestBlocked"
MsgBlocked == <<"R", "e", "q", "u", "e", "s", "t", "B", "l", "o", "c", "k", "e", "d">>
\* MsgRate is "Rate limit"
MsgRate == <<"R", "a", "t", "e", " ", "l", "i", "m", "i", "t">>
\* MsgSeparate is "separate"
MsgSeparate == <<"s", "e", "p", "a", "r", "a", "t", "e">>
\* MsgBoom is "boom"
MsgBoom == <<"b", "o", "o", "m">>
ErrorTexts == {Msg429, MsgTooMany, MsgBlocked, MsgRate, MsgSeparate, MsgBoom}

\* The keys call_tools_polite looks for.
TransientKeys ==
    {<<"4", "2", "9">>,
     <<"t", "o", "o", " ", "m", "a", "n", "y", " ", "r", "e", "q", "u", "e", "s", "t", "s">>,
     <<"b", "l", "o", "c", "k", "e", "d">>,
     <<"r", "e", "q", "u", "e", "s", "t", "b", "l", "o", "c", "k", "e", "d">>,
     <<"r", "a", "t", "e">>}

\* str.lower() on the characters the texts hold
lower_char(ch) ==
    CASE ch = "B" -> "b"
      [] ch = "H" -> "h"
      [] ch = "M" -> "m"
      [] ch = "P" -> "p"
      [] ch = "R" -> "r"
      [] ch = "T" -> "t"
      [] OTHER -> ch

lower(text) == [i \in 1 .. Len(text) |-> lower_char(text[i])]

\* k in msg
contains(msg, k) ==
    \E i \in 1 .. Len(msg) - Len(k) + 1 : SubSeq(msg, i, i + Len(k) - 1) = k

\* transient = any(k in msg for k in [...]), msg being str(e).lower()
is_transient(text) == \E k \in TransientKeys : contains(lower(text), k)

\* A loop that allows one attempt more.
gives_up_late(transient, attempt, max_retries) ==
    (~transient) \/ (attempt > max_retries)

\* if (not transient) or (attempt >= max_retries): raise
gives_up(transient, attempt, max_retries) ==
    (~transient) \/ (attempt >= max_retries)

\* call_tools_polite(tool_name, args, max_retries=...): attempt = 0.  polite:
\*   pc "trying" in the while loop, "returned", "raised"
\*   attempt the local counter; raised: the error re-raised
\*   made counts the attempts of the tool call, errors holds str(e) of those
\*   that raised, in order
call_tools_polite(max_retries) ==
    /\ polite.pc = "none"
    /\ polite' = [pc |-> "trying", max_retries |-> max_retries, attempt |-> 0,
                   made |-> 0, errors |-> <<>>, raised |-> None]
    /\ UNCHANGED <<impl, now, ticks, JOBS, job, task, ids, served, run, split, client>>

\* One pass of the loop: _throttle, the tool call, and what follows a
\* returned result (ok) or an error with the text msg.
polite_attempt(ok, msg) ==
    /\ polite.pc = "trying"
    /\ polite' =
         IF ok THEN [polite EXCEPT !.pc = "returned", !.made = @ + 1]
         ELSE IF gives_up(is_transient(msg), polite.attempt, polite.max_retries)
         THEN [polite EXCEPT !.pc = "raised", !.made = @ + 1,
                             !.errors = Append(@, msg), !.raised = Some(msg)]
         ELSE [polite EXCEPT !.attempt = @ + 1, !.made = @ + 1,
                             !.errors = Append(@, msg)]
    /\ UNCHANGED <<impl, now, ticks, JOBS, job, task, ids, served, run, split, client>>

\* ------------------------------------------------------------------- clock
Tick(d) ==
    /\ ticks < MaxTicks
    /\ now' = now + d
    /\ ticks' = ticks + 1
    /\ UNCHANGED <<impl, JOBS, job, task, ids, served>>

\* ----------------------------------------------------------- specification
SidArgs == {None, Some("s2")}
JobIdArgs == JobIds \cup {UnknownJobId}

\* The calls a run tries.  A handler reads nothing but the token before it has
\* accepted it, and of an accepted token nothing but its sid: a token that is
\* rejected is tried with one choice of the other arguments, and of the tokens
\* accepted one for each session.  The rejections are those of verify_token
\* whatever handler it guards: the launch is tried with every rejected token,
\* the control handlers with one.  Which tokens are accepted depends on the
\* clock alone, so the calls are tabulated for the values the clock takes.
Times ==
    UNION {{a + b * (SweepMaxAge + 1) : b \in 0 .. MaxTicks - a} : a \in 0 .. MaxTicks}

AcceptedAt == [t \in Times |-> {token \in TokenChoices : Auth(token, t).ok}]

CallersAt ==
    [t \in Times |->
        {CHOOSE token \in AcceptedAt[t] : Auth(token, t).sid = s :
            s \in {Auth(token, t).sid : token \in AcceptedAt[t]}}]

LaunchCallsAt ==
    [t \in Times |->
        (CallersAt[t] \X TimeoutChoices \X SidArgs)
        \cup ((TokenChoices \ AcceptedAt[t]) \X {None} \X {None})]

ControlCallsAt ==
    [t \in Times |->
        (CallersAt[t] \X JobIdArgs)
        \cup {<<CHOOSE token \in TokenChoices \ AcceptedAt[t] : TRUE, UnknownJobId>>}]

Accepted == AcceptedAt[now]
LaunchCalls == LaunchCallsAt[now]
ControlCalls == ControlCallsAt[now]

Init ==
    /\ impl \in Impls
    /\ now = 0
    /\ ticks = 0
    /\ JOBS = {}
    /\ job = <<>>
    /\ task = <<>>
    /\ ids = {}
    /\ served = [i \in JobIds |-> 0]
    /\ run = [i \in JobIds |-> NewRun]
    /\ split = NoSplit
    /\ client = NoClient
    /\ polite = NoPolite

\* The event loop runs one handler or one task step at a time.
Next ==
    \/ \E c \in LaunchCalls : wrapper(c[1], c[2], c[3]) /\ UNCHANGED off_server
    \/ \E c \in ControlCalls : get_job_status(c[1], c[2]) /\ UNCHANGED off_server
    \/ \E c \in ControlCalls : get_job_result(c[1], c[2]) /\ UNCHANGED off_server
    \/ \E c \in ControlCalls : cancel_job(c[1], c[2]) /\ UNCHANGED off_server
    \/ \E jid \in JobIds : TaskStart(jid) /\ UNCHANGED off_server
    \/ \E jid \in JobIds : TaskTmo0(jid) /\ UNCHANGED off_server
    \/ \E jid \in JobIds : TimerFire(jid) /\ UNCHANGED off_server
    \/ \E jid \in JobIds, fraction \in Fractions :
          _progress_cb(jid, fraction) /\ UNCHANGED off_server
    \/ \E jid \in JobIds : SetProgress(jid) /\ UNCHANGED off_server
    \/ \E jid \in JobIds, is_coro \in BOOLEAN, inner_task \in BOOLEAN :
          FnReturn(jid, is_coro, inner_task) /\ UNCHANGED off_server
    \/ \E jid \in JobIds : TaskReturn(jid) /\ UNCHANGED off_server
    \/ \E jid \in JobIds, exc \in {"Exception", "TimeoutError"}, is_coro \in BOOLEAN :
          FnRaise(jid, exc, is_coro) /\ UNCHANGED off_server
    \/ \E jid \in JobIds : TaskCancelled(jid) /\ UNCHANGED off_server
    \/ \E d \in TickSizes : Tick(d) /\ UNCHANGED off_server

Spec == Init /\ [][Next]_vars

\* The event loop runs what is ready: a task that was created, woken by a
\* finished wait, by its deadline or by a cancellation, and every callback
\* queued with call_soon_threadsafe, gets its step.
LoopFairness ==
    \A jid \in JobIds :
        /\ WF_vars(TaskStart(jid) /\ UNCHANGED off_server)
        /\ WF_vars(TaskTmo0(jid) /\ UNCHANGED off_server)
        /\ WF_vars(TaskCancelled(jid) /\ UNCHANGED off_server)
        /\ WF_vars(TaskReturn(jid) /\ UNCHANGED off_server)
        /\ WF_vars(SetProgress(jid) /\ UNCHANGED off_server)

FairSpec == Spec /\ LoopFairness

\* A server whose long job is youtube_audio_json_async: the launch and the
\* control handlers as above, the callable in the steps of its chunked run.
ChunkNext ==
    \/ \E c \in LaunchCalls : wrapper(c[1], c[2], c[3]) /\ UNCHANGED off_server
    \/ \E c \in ControlCalls : get_job_status(c[1], c[2]) /\ UNCHANGED off_server
    \/ \E c \in ControlCalls : get_job_result(c[1], c[2]) /\ UNCHANGED off_server
    \/ \E c \in ControlCalls : cancel_job(c[1], c[2]) /\ UNCHANGED off_server
    \/ \E jid \in JobIds : RunStart(jid) /\ UNCHANGED client_side
    \/ \E jid \in JobIds : TaskTmo0(jid) /\ UNCHANGED off_server
    \/ \E jid \in JobIds : TimerFire(jid) /\ UNCHANGED off_server
    \/ \E jid \in JobIds : download_audio(jid) /\ UNCHANGED client_side
    \/ \E jid \in JobIds : DownloadReturn(jid) /\ UNCHANGED client_side
    \/ \E jid \in JobIds : transcribe_with_whisper_async(jid) /\ UNCHANGED client_side
    \/ \E jid \in JobIds : ChunkSubmit(jid) /\ UNCHANGED client_side
    \/ \E jid \in JobIds : _transcribe_chunk_in_worker_thread(jid) /\ UNCHANGED client_side
    \/ \E jid \in JobIds : ChunkAppend(jid) /\ UNCHANGED client_side
    \/ \E jid \in JobIds, inner_task \in BOOLEAN :
          ChunkReturn(jid, inner_task) /\ UNCHANGED client_side
    \/ \E jid \in JobIds : TaskReturn(jid) /\ UNCHANGED off_server
    \/ \E jid \in JobIds : RunCancelled(jid) /\ UNCHANGED client_side
    \/ \E d \in TickSizes : Tick(d) /\ UNCHANGED off_server

ChunkSpec == Init /\ [][ChunkNext]_vars

\* A client in call_long_tool_and_get_result, the job it launched, the clock,
\* and other callers that cancel or retrieve.
ClientNext ==
    \/ \E token \in TokenChoices, timeout_s \in TimeoutChoices :
          client_launch(token, timeout_s)
    \/ client_poll
    \/ client_ack
    \/ \E c \in ControlCalls : get_job_result(c[1], c[2]) /\ UNCHANGED off_server
    \/ \E c \in ControlCalls : cancel_job(c[1], c[2]) /\ UNCHANGED off_server
    \/ \E jid \in JobIds : TaskStart(jid) /\ UNCHANGED off_server
    \/ \E jid \in JobIds : TaskTmo0(jid) /\ UNCHANGED off_server
    \/ \E jid \in JobIds : TimerFire(jid) /\ UNCHANGED off_server
    \/ \E jid \in JobIds, is_coro \in BOOLEAN, inner_task \in BOOLEAN :
          FnReturn(jid, is_coro, inner_task) /\ UNCHANGED off_server
    \/ \E jid \in JobIds : TaskReturn(jid) /\ UNCHANGED off_server
    \/ \E jid \in JobIds, exc \in {"Exception", "TimeoutError"}, is_coro \in BOOLEAN :
          FnRaise(jid, exc, is_coro) /\ UNCHANGED off_server
    \/ \E jid \in JobIds : TaskCancelled(jid) /\ UNCHANGED off_server
    \/ \E d \in TickSizes : Tick(d) /\ UNCHANGED off_server

ClientSpec == Init /\ [][ClientNext]_vars

\* call_tools_polite with max_retries up to MaxRetries; each attempt returns
\* or raises an error with one of the texts.
PoliteNext ==
    \/ \E max_retries \in 0 .. MaxRetries : call_tools_polite(max_retries)
    \/ \E ok \in BOOLEAN, msg \in ErrorTexts : polite_attempt(ok, msg)

PoliteSpec == Init /\ [][PoliteNext]_vars

\* The chunk loop on its own: an audio of up to MaxSamples samples, a chunk
\* duration and an overlap of up to MaxDuration half sample periods.
SplitNext ==
    \/ \E num_samples \in 0 .. MaxSamples, chunk_duration \in 1 .. MaxDuration,
          overlap \in 0 .. MaxDuration :
          transcribe_with_whisper(num_samples, chunk_duration, overlap)
    \/ transcribe_chunk

SplitSpec == Init /\ [][SplitNext]_vars

\* The loop is straight-line code between its awaits: uninterrupted, it takes
\* its next pass.
SplitFairSpec == SplitSpec /\ WF_vars(transcribe_chunk)

\* ------------------------------------------------------------- properties
\* The session a token accepted now speaks for, and whether a job is in _JOBS
\* under its owner's key.
SidOf(token) == Auth(token, now).sid
InStore(jid) == jid \in DOMAIN job /\ jk(job[jid].session_id, jid) \in JOBS

\* C1: session isolation.  For a job launched under one session that is in
\* the store, a status, result or cancel call that presents an accepted token
\* of another session together with the job's id is answered NotFound, the
\* answer the same call gets for a job id that never existed.
C1_SessionIsolation ==
    \A token \in Accepted : \A jid \in DOMAIN job :
        (InStore(jid) /\ SidOf(token) # job[jid].session_id) =>
            /\ get_job_status_answer(token, jid) = NotFound
            /\ get_job_result_answer(token, jid) = NotFound
            /\ cancel_job_answer(token, jid) = NotFound
            /\ get_job_status_answer(token, jid) = get_job_status_answer(token, UnknownJobId)
            /\ get_job_result_answer(token, jid) = get_job_result_answer(token, UnknownJobId)
            /\ cancel_job_answer(token, jid) = cancel_job_answer(token, UnknownJobId)

\* A job of one session is in the store and visible to its owner while a
\* caller of another session, with an accepted token and the right id, is
\* answered NotFound.
C1_Witness ==
    \E token \in Accepted : \E owner \in Accepted : \E jid \in DOMAIN job :
        /\ InStore(jid)
        /\ SidOf(owner) = job[jid].session_id
        /\ SidOf(token) # job[jid].session_id
        /\ get_job_status_answer(owner, jid).kind = "status"
        /\ cancel_job_answer(owner, jid).kind = "cancel"
        /\ get_job_status_answer(token, jid) = NotFound

\* C2: at-most-once result retrieval.  While a terminal job that has never been
\* served is in the store, a result call with an accepted token of its owner
\* is answered with the outcome, not with NotFound; once the outcome has been
\* served, every result call for the job is answered NotFound.
C2_AtMostOnce ==
    \A token \in Accepted : \A jid \in JobIds :
        /\ (/\ InStore(jid)
            /\ job[jid].state \in Terminal
            /\ served[jid] = 0
            /\ SidOf(token) = job[jid].session_id)
           => get_job_result_answer(token, jid).kind = "outcome"
        /\ served[jid] >= 1 => get_job_result_answer(token, jid) = NotFound

\* The half of C2 that holds: no outcome is served twice, and after it has been
\* served the job is answered NotFound.
C2_ServedOnce ==
    \A token \in Accepted : \A jid \in JobIds :
        /\ served[jid] <= 1
        /\ served[jid] = 1 => get_job_result_answer(token, jid) = NotFound

\* C3: status is read-only.  A get_job_status call, whatever token and job id
\* it presents and whatever state the job is in, leaves the key set of the
\* store, every field of every job and every task as they were.
C3_StatusReadOnly ==
    [][\A token \in TokenChoices : \A job_id \in JobIdArgs :
          get_job_status(token, job_id) => UNCHANGED <<JOBS, job, task>>]_vars

\* A job that is running, whose owner's status call reports it as running.
C3_Witness ==
    \E token \in Accepted : \E jid \in DOMAIN job :
        /\ InStore(jid)
        /\ job[jid].state = RUNNING
        /\ SidOf(token) = job[jid].session_id
        /\ get_job_status_answer(token, jid).kind = "status"
        /\ get_job_status_answer(token, jid).state = RUNNING
        /\ get_job_status_answer(token, jid).progress = P001

\* C4: a result call of the owner on a job that is PENDING or RUNNING is
\* answered "job not complete" with the job's id and state, ...
C4_NotCompleteAnswer ==
    \A token \in Accepted : \A jid \in DOMAIN job :
        (/\ InStore(jid)
         /\ job[jid].state \in {PENDING, RUNNING}
         /\ SidOf(token) = job[jid].session_id)
        => get_job_result_answer(token, jid) = NotComplete(job[jid])

\* ... and leaves the job in the store, its record and its task untouched.
C4_NotCompleteKeeps ==
    \A token \in Accepted : \A jid \in DOMAIN job :
        (/\ InStore(jid)
         /\ job[jid].state \in {PENDING, RUNNING}
         /\ SidOf(token) = job[jid].session_id
         /\ get_job_result(token, jid))
        => (/\ jid \in DOMAIN job'
            /\ jk(job[jid].session_id, jid) \in JOBS'
            /\ job'[jid] = job[jid]
            /\ task'[jid] = task[jid])

Missing(token) == token.form = "empty"
Malformed(token) == token.form = "nodot"
WronglySigned(token) == token.form = "dotted" /\ token.sig # _sign(SECRET, token.msg)
Expired(token) == token.form = "dotted" /\ token.msg.exp < now
BadToken(token) == Missing(token) \/ Malformed(token) \/ WronglySigned(token) \/ Expired(token)

\* C5: the launch fails closed.  A launch that presents a missing, malformed,
\* wrongly signed or expired token is answered with the rejection, ...
C5_Rejected ==
    \A token \in TokenChoices : \A timeout_s \in TimeoutChoices : \A sid_arg \in SidArgs :
        BadToken(token) =>
            wrapper_answer(token, timeout_s, sid_arg) =
                IF Missing(token) THEN MissingTokenAnswer
                ELSE IF Malformed(token) THEN AuthErrorAnswer("invalid token format")
                ELSE IF WronglySigned(token) THEN AuthErrorAnswer("invalid token signature")
                ELSE AuthErrorAnswer("token expired")

\* ... and adds no job to the store, creates no job record and schedules no
\* task, so that the callable is never invoked.
C5_NothingHappens ==
    \A token \in TokenChoices : \A timeout_s \in TimeoutChoices : \A sid_arg \in SidArgs :
        (BadToken(token) /\ wrapper(token, timeout_s, sid_arg))
        => UNCHANGED <<JOBS, job, task, ids>>

\* C5: both halves, in every state and for every step.
C5_LaunchFailsClosed == []C5_Rejected /\ [][C5_NothingHappens]_vars

\* A state with a job in the store in which tokens of all four kinds are
\* presented: the clock is past the expiry of a token SECRET signed.
C5_Witness ==
    /\ JOBS # {}
    /\ \E token \in TokenChoices : Missing(token)
    /\ \E token \in TokenChoices : Malformed(token)
    /\ \E token \in TokenChoices : WronglySigned(token)
    /\ \E token \in TokenChoices :
          /\ Expired(token)
          /\ ~WronglySigned(token)
          /\ wrapper_answer(token, None, None) = AuthErrorAnswer("token expired")

\* C6: unforgeable session id.  While the callable of a job runs, the
\* session_id it was called with is the session id of the token the launch
\* verified, whatever session_id the caller of the launch supplied.
C6_UnforgeableSessionId ==
    \A jid \in DOMAIN task :
        task[jid].pc = "running" => task[jid].kw_session_id = Some(job[jid].session_id)

\* C7: at the moment a launch with an accepted token returns, the new job is in
\* the store under the verified session and an id no job had before, PENDING
\* with progress 0 and not started, the descriptor returned says so, and the
\* task is scheduled but has not run.
C7_LaunchStep ==
    \A token \in Accepted : \A timeout_s \in TimeoutChoices : \A sid_arg \in SidArgs :
        wrapper(token, timeout_s, sid_arg) =>
            LET jid == NextJobId
                d == wrapper_answer(token, timeout_s, sid_arg)
            IN /\ jid \notin ids /\ jid \notin DOMAIN job
               /\ JOBS' = JOBS \cup {jk(SidOf(token), jid)}
               /\ job'[jid].session_id = SidOf(token)
               /\ job'[jid].state = PENDING
               /\ job'[jid].progress = P0
               /\ job'[jid].started_at = None /\ job'[jid].finished_at = None
               /\ task'[jid].pc = "created"
               /\ d.kind = "job_info"
               /\ d.job_id = jid /\ d.state = PENDING /\ d.progress = P0
               /\ impl = "jobs" => d.status = ""

C7_LaunchReturnsPending == [][C7_LaunchStep]_vars

\* A launch has just returned: its job is in the store, PENDING, and its task
\* has not run.
C7_Witness ==
    \E jid \in DOMAIN job :
        /\ InStore(jid)
        /\ job[jid].state = PENDING
        /\ job[jid].progress = P0
        /\ task[jid].pc = "created" /\ ~task[jid].must_cancel

\* C8: per-job state order.  The states a job has been in are PENDING, then
\* RUNNING, then one terminal state, and a terminal job has started_at set.
C8_StateOrder ==
    \A jid \in DOMAIN job :
        /\ job[jid].hist \in {<<PENDING>>, <<PENDING, RUNNING>>}
                              \cup {<<PENDING, RUNNING, s>> : s \in Terminal}
        /\ job[jid].state \in Terminal => ~IsNone(job[jid].started_at)

\* C9: terminal states are absorbing.  A step taken while a job is terminal
\* leaves its state, finished_at, result and error as they are, as long as
\* the job exists; and no step writes finished_at a second time.
C9_TerminalStep ==
    /\ \A jid \in DOMAIN job \cap DOMAIN job' :
          job[jid].state \in Terminal =>
              /\ job'[jid].state = job[jid].state
              /\ job'[jid].finished_at = job[jid].finished_at
              /\ job'[jid].result = job[jid].result
              /\ job'[jid].error = job[jid].error
              /\ job'[jid].stamps = job[jid].stamps
              /\ job'[jid].hist = job[jid].hist
    /\ \A jid \in DOMAIN job' : job'[jid].stamps <= 1

C9_TerminalAbsorbing == [][C9_TerminalStep]_vars

\* A job that timed out is still in the store at a later time, with a cancel
\* call of its owner answered by the job's state.
C9_Witness ==
    \E token \in Accepted : \E jid \in DOMAIN job :
        /\ InStore(jid)
        /\ job[jid].state = TIMED_OUT
        /\ now > Val(job[jid].finished_at)
        /\ SidOf(token) = job[jid].session_id
        /\ cancel_job_answer(token, jid) = CancelState(job[jid])

\* C10: every job whose state is DONE, FAILED, TIMED_OUT or CANCELED has
\* finished_at set.
C10_TerminalHasFinishedAt ==
    \A jid \in DOMAIN job :
        job[jid].state \in Terminal => ~IsNone(job[jid].finished_at)

\* Jobs that ended by cancellation and by an error of the callable, stamped.
C10_Witness ==
    \E jid \in DOMAIN job :
        /\ job[jid].state \in {CANCELED, FAILED}
        /\ ~IsNone(job[jid].started_at)
        /\ job[jid].finished_at = Some(now)

\* C11: outcome fields match the state.  In every reachable state a job has
\* result set exactly when it is DONE and error set exactly when it is FAILED,
\* TIMED_OUT or CANCELED, and so has error_type in jobs.py, whose Job has that
\* field; a PENDING or RUNNING job has none of them set.
C11_OutcomeFieldsMatchState ==
    \A jid \in DOMAIN job :
        LET j == job[jid]
        IN /\ ~IsNone(j.result) <=> j.state = DONE
           /\ ~IsNone(j.error) <=> j.state \in {FAILED, TIMED_OUT, CANCELED}
           /\ impl = "jobs" =>
                 (~IsNone(j.error_type) <=> j.state \in {FAILED, TIMED_OUT, CANCELED})
           /\ j.state \in {PENDING, RUNNING} =>
                 IsNone(j.result) /\ IsNone(j.error) /\ IsNone(j.error_type)

\* A job of jobs.py that its callable failed: error and error_type set, no
\* result.
C11_Witness ==
    \E jid \in DOMAIN job :
        /\ impl = "jobs"
        /\ job[jid].state = FAILED
        /\ job[jid].error = Some("boom")
        /\ job[jid].error_type = Some("Exception")
        /\ IsNone(job[jid].result)

\* C12: whenever a job is DONE its progress is 1.0, also when its callable
\* reported progress through progress_cb just before it returned.
C12_DoneProgressOne ==
    \A jid \in DOMAIN job : job[jid].state = DONE => job[jid].progress = P1

\* C13: while a job is RUNNING its progress never decreases, whatever
\* fractions the callable reports, and progress stays within [0, 1].
C13_ProgressStep ==
    \A jid \in DOMAIN job \cap DOMAIN job' :
        (job[jid].state = RUNNING /\ job'[jid].state = RUNNING)
        => job'[jid].progress >= job[jid].progress

C13_ProgressInRange ==
    \A jid \in DOMAIN job : P0 <= job[jid].progress /\ job[jid].progress <= P1

C13_ProgressMonotone == []C13_ProgressInRange /\ [][C13_ProgressStep]_vars

\* A terminal job the sweep at the head of get_job_result (jobs.py variant)
\* leaves in the store.
Retained(jid) ==
    impl = "long_job_server" \/ now - Val(job[jid].finished_at) <= SweepMaxAge

\* C14: execution errors are contained.  When the callable raises
\* Exception("boom"), the step ends the job FAILED with the message, and in
\* jobs.py the type, recorded and finished_at stamped, the task ends without
\* raising, and nothing else changes: the launch, which returned before the
\* task ran, has given its descriptor and no error ...
C14_FailStep ==
    \A jid \in DOMAIN job : \A is_coro \in BOOLEAN :
        FnRaise(jid, "Exception", is_coro) =>
            /\ job'[jid].state = FAILED
            /\ job'[jid].error = Some("boom")
            /\ impl = "jobs" => job'[jid].error_type = Some("Exception")
            /\ job'[jid].result = None
            /\ job'[jid].finished_at = Some(now)
            /\ task'[jid].pc = "finished"
            /\ UNCHANGED <<JOBS, ids, served>>

\* ... and a result call of the owner that finds the job reports state failed
\* with that message and no result.
C14_FailReported ==
    \A token \in Accepted : \A jid \in DOMAIN job :
        (/\ InStore(jid)
         /\ job[jid].state = FAILED
         /\ Retained(jid)
         /\ SidOf(token) = job[jid].session_id)
        => LET d == get_job_result_answer(token, jid)
           IN /\ d.kind = "outcome"
              /\ d.state = FAILED
              /\ d.error = Some("boom")
              /\ impl = "jobs" => d.result = None /\ d.error_type = Some("Exception")

DeadlineExpired(jid) ==
    jid \in DOMAIN task /\ task[jid].pc = "running" /\ task[jid].expiring

\* C15: deadline enforcement.  Once the deadline of a job launched with a
\* timeout has fired while its callable runs, no step makes the job DONE; the
\* step that ends it is the one that delivers a cancellation, the same that
\* ends an explicitly cancelled job, and, no cancel being requested, it ends
\* the job TIMED_OUT with the error "timed out" and finished_at stamped ...
C15_DeadlineStep ==
    \A jid \in DOMAIN job \cap DOMAIN job' :
        DeadlineExpired(jid) =>
            /\ job'[jid].state # DONE
            /\ job'[jid].state # job[jid].state =>
                  /\ TaskCancelled(jid)
                  /\ ~task[jid].must_cancel =>
                        /\ job'[jid].state = TIMED_OUT
                        /\ job'[jid].error = Some("timed out")
                        /\ impl = "jobs" => job'[jid].error_type = Some("TimeoutError")
                        /\ job'[jid].result = None
                        /\ job'[jid].finished_at = Some(now)

\* ... and the loop running what is ready, the job does end: TIMED_OUT, or
\* CANCELED when a cancel request has come in as well.
C15_DeadlineEnds ==
    \A jid \in JobIds :
        DeadlineExpired(jid) ~>
            (jid \notin DOMAIN job \/ job[jid].state \in {TIMED_OUT, CANCELED})

\* C15: both halves.
C15_DeadlineEnforced == [][C15_DeadlineStep]_vars /\ C15_DeadlineEnds

\* A job launched with timeout_s = 1 that ran into its deadline: TIMED_OUT
\* after RUNNING, at or after started_at + timeout_s.
C15_Witness ==
    \E jid \in DOMAIN job :
        /\ job[jid].timeout_s = Some(1)
        /\ job[jid].hist = <<PENDING, RUNNING, TIMED_OUT>>
        /\ job[jid].error = Some("timed out")
        /\ Val(job[jid].finished_at) >= Val(job[jid].started_at) + 1

\* C16: cancel takes effect.  A cancel request accepted at any point between
\* the return of the launch and the end of the job, also before the task has
\* had its first step, ends the job: once the task has ended by that
\* cancellation the job is CANCELED, the owner's result call that finds it
\* returns canceled with no result, and after that call the job is NotFound.
C16_CancelTakesEffect ==
    \A jid \in DOMAIN job :
        /\ task[jid].pc = "cancelled" =>
              /\ job[jid].state = CANCELED
              /\ \A token \in Accepted :
                    (InStore(jid) /\ Retained(jid) /\ SidOf(token) = job[jid].session_id)
                    => /\ get_job_result_answer(token, jid).kind = "outcome"
                       /\ get_job_result_answer(token, jid).state = CANCELED
        /\ served[jid] >= 1 =>
              \A token \in Accepted : get_job_result_answer(token, jid) = NotFound

\* The part of C16 that holds: a cancellation delivered to work that has
\* started ends the job CANCELED.
C16_CancelAfterStart ==
    \A jid \in DOMAIN job :
        (task[jid].pc = "cancelled" /\ ~IsNone(job[jid].started_at))
        => job[jid].state = CANCELED /\ job[jid].error = Some("canceled")

\* The negative acknowledgement {ok: false, info: "already finished"}.
AlreadyFinished == [kind |-> "cancel", ok |-> FALSE, info |-> "already finished"]

\* C17: a cancel call of the owner on a job that is already terminal is
\* answered with the negative acknowledgement, ok = false and "already
\* finished", ...
C17_NegativeAck ==
    \A token \in Accepted : \A jid \in DOMAIN job :
        (/\ InStore(jid)
         /\ job[jid].state \in Terminal
         /\ SidOf(token) = job[jid].session_id)
        => cancel_job_answer(token, jid) = AlreadyFinished

\* ... sends no cancellation to the task and leaves the job and the store as
\* they are.
C17_NoSignal ==
    \A token \in Accepted : \A jid \in DOMAIN job :
        (/\ InStore(jid)
         /\ job[jid].state \in Terminal
         /\ SidOf(token) = job[jid].session_id
         /\ cancel_job(token, jid))
        => UNCHANGED <<JOBS, job, task>>

\* C17: both halves, in every state and for every step.
C17_CancelTerminal == []C17_NegativeAck /\ [][C17_NoSignal]_vars

\* What holds of a cancel call on a terminal job: it is never answered
\* NotFound or with another job's data, and the job and the store stay as
\* they are; when the job's task has ended the answer is the job's id and
\* state, and nothing at all changes.
C17_JobUntouched ==
    \A token \in Accepted : \A jid \in DOMAIN job :
        (/\ InStore(jid)
         /\ job[jid].state \in Terminal
         /\ SidOf(token) = job[jid].session_id
         /\ cancel_job(token, jid))
        => /\ UNCHANGED <<JOBS, job>>
           /\ TaskDone(task[jid]) =>
                 UNCHANGED task /\ cancel_job_answer(token, jid) = CancelState(job[jid])

C17_CancelLeavesJob == [][C17_JobUntouched]_vars

\* The ttl_s a token is issued with: the bounds and the default.
Ttls == {TtlShort, TOKEN_TTL_SECONDS, TtlLong}

C19_SignatureBinding ==
    \A token \in TokenChoices :
        /\ verify_token(token, now).ok =>
              token.form = "dotted" /\ token.sig = _sign(SECRET, token.msg)
        /\ WronglySigned(token) =>
              verify_token(token, now) = Rejected("invalid token signature")

\* Presented after its expiry: a token signed under another secret; and, with
\* it, tokens SECRET signed whose sid and whose expiry were altered.
C19_Witness ==
    /\ \E token \in TokenChoices :
          /\ token.sig = _sign(OtherSecret, token.msg)
          /\ Expired(token)
          /\ wrapper_answer(token, None, None) = AuthErrorAnswer("invalid token signature")
    /\ \E token \in TokenChoices :
          /\ token.sig = _sign(SECRET, Payload("s1", TtlLong)) /\ token.msg.sid = "s2"
          /\ ~verify_token(token, now).ok
    /\ \E token \in TokenChoices :
          /\ token.sig = _sign(SECRET, Payload("s1", TtlShort)) /\ token.msg.exp = TtlLong
          /\ ~verify_token(token, now).ok

\* C20: expiry.  A correctly signed token is accepted only while its expiry
\* is in the future: at every time at or after the expiry it is rejected with
\* "token expired".
C20_ExpiredRejected ==
    \A token \in TokenChoices :
        (token.form = "dotted" /\ ~WronglySigned(token) /\ token.msg.sid # NoSid) =>
            /\ verify_token(token, now).ok => token.msg.exp > now
            /\ token.msg.exp <= now => verify_token(token, now) = Rejected("token expired")

\* What holds of C20: a correctly signed token is rejected with "token
\* expired" at every time after its expiry, and accepted up to it.
C20_RejectedAfterExpiry ==
    \A token \in TokenChoices :
        (token.form = "dotted" /\ ~WronglySigned(token) /\ token.msg.sid # NoSid) =>
            /\ token.msg.exp < now => verify_token(token, now) = Rejected("token expired")
            /\ token.msg.exp >= now => verify_token(token, now).ok

\* C21: stateless verification, no revocation.  The verdict on a token is
\* fixed by the token, SECRET and the time: a step that leaves the clock as it
\* is, whatever it launches, retrieves, cancels or sweeps, leaves the verdict
\* on every token as it is, ...
C21_VerdictStep ==
    now' = now =>
        \A token \in TokenChoices : verify_token(token, now') = verify_token(token, now)

\* ... and a token SECRET signed, with a sid, is accepted in every state up to
\* its expiry, whatever the store holds and whatever has been served.
C21_NoRevocation ==
    \A token \in TokenChoices :
        (token.form = "dotted" /\ ~WronglySigned(token) /\ token.msg.sid # NoSid
            /\ token.msg.exp >= now)
        => verify_token(token, now).ok

C22_InterruptedBetweenChunks ==
    \A jid \in JobIds :
        run[jid].pc = "interrupted" => Len(run[jid].chunks) = run[jid].begun

\* C23: a step that interrupts a chunked run whose scratch file exists leaves
\* the scratch file removed.
C23_ScratchRemoved ==
    [][\A jid \in JobIds :
          (run[jid].pc # "interrupted" /\ run'[jid].pc = "interrupted" /\ run[jid].scratch)
          => ~run'[jid].scratch]_vars

\* C24: no partial result.  An interrupted chunked run has returned nothing
\* and has stored no cache entry, and its job, while it is kept, is CANCELED or
\* TIMED_OUT with no result; a cache entry, a returned value and a job's result
\* are the outputs of all NumChunks chunks in order.
C24_NoPartialResult ==
    \A jid \in JobIds :
        LET r == run[jid]
            All == [i \in 1 .. NumChunks |-> i]
        IN /\ r.pc = "interrupted" =>
                /\ IsNone(r.returned) /\ IsNone(r.cache)
                /\ jid \in DOMAIN job =>
                       job[jid].state \in {CANCELED, TIMED_OUT} /\ IsNone(job[jid].result)
           /\ ~IsNone(r.cache) => Val(r.cache) = All
           /\ ~IsNone(r.returned) => Val(r.returned) = json_dumps(All)
           /\ (jid \in DOMAIN job /\ ~IsNone(job[jid].result)) =>
                /\ r.pc = "returned"
                /\ job[jid].result = Some(json_dumps(All))
                /\ job[jid].state = DONE

\* A run interrupted by a cancel request after one chunk of two was appended,
\* its job CANCELED and still in the store.
C24_Witness ==
    \E jid \in JobIds :
        /\ run[jid].pc = "interrupted"
        /\ Len(run[jid].chunks) = NumChunks - 1
        /\ InStore(jid)
        /\ job[jid].state = CANCELED

\* C25: a job is TIMED_OUT only if it was launched with a deadline: a job
\* launched without timeout_s is never TIMED_OUT.
C25_TimedOutOnlyWithDeadline ==
    \A jid \in DOMAIN job :
        job[jid].state = TIMED_OUT => ~IsNone(job[jid].timeout_s)

\* C26: cancellation is not swallowed.  The step in which a cancel request
\* reaches the running job leaves the job CANCELED with the error "canceled"
\* and finished_at stamped, and its task ended as cancelled, ...
C26_CancelStep ==
    \A jid \in DOMAIN task :
        (task[jid].pc = "running" /\ task[jid].must_cancel
            /\ jid \in DOMAIN task' /\ task'[jid].pc # "running")
        => /\ job'[jid].state = CANCELED
           /\ job'[jid].error = Some("canceled")
           /\ job'[jid].finished_at = Some(now)
           /\ task'[jid].pc = "cancelled"

\* ... and the task of a CANCELED job has ended as cancelled, never as
\* finished.
C26_CanceledTaskCancelled ==
    \A jid \in DOMAIN job :
        job[jid].state = CANCELED =>
            task[jid].pc = "cancelled" /\ ~IsNone(job[jid].finished_at)

\* C26: both halves.
C26_CancelNotSwallowed == []C26_CanceledTaskCancelled /\ [][C26_CancelStep]_vars

\* A job cancelled while it ran: CANCELED, its task cancelled.
C26_Witness ==
    \E jid \in DOMAIN job :
        /\ job[jid].state = CANCELED
        /\ job[jid].hist = <<PENDING, RUNNING, CANCELED>>
        /\ task[jid].pc = "cancelled"
        /\ job[jid].error = Some("canceled")

\* C27: atomic pop.  Of the result calls for one terminal job, whichever runs
\* first is answered with the outcome and is the first to be: once it has
\* run, every other result call for the job, with any accepted token, is
\* answered NotFound.
C27_AtomicPop ==
    [][\A jid \in JobIds :
          served'[jid] > served[jid] =>
              /\ served'[jid] = 1
              /\ \E token \in Accepted : get_job_result_answer(token, jid).kind = "outcome"
              /\ \A token \in Accepted : (get_job_result_answer(token, jid) = NotFound)']_vars

\* Two callers of the owner's session could each have been served the
\* outcome; one was.
C27_Witness ==
    \E jid \in JobIds :
        /\ served[jid] = 1
        /\ Cardinality({token \in Accepted : SidOf(token) = "s1"}) >= 2
        /\ \A token \in Accepted : get_job_result_answer(token, jid) = NotFound
        /\ \A key \in JOBS : key[2] # jid

\* C28: strict session partitioning of effects.  A launch, status, result or
\* cancel call with a token of one session leaves every key of another session
\* in the store, and the job and the task under it as they were.
C28_ForeignJobsUntouched ==
    [][\A token \in Accepted : \A job_id \in JobIdArgs :
          (\/ \E timeout_s \in TimeoutChoices, sid_arg \in SidArgs :
                 wrapper(token, timeout_s, sid_arg)
           \/ get_job_status(token, job_id)
           \/ get_job_result(token, job_id)
           \/ cancel_job(token, job_id))
          => \A key \in JOBS :
                key[1] # SidOf(token) =>
                    /\ key \in JOBS'
                    /\ job'[key[2]] = job[key[2]]
                    /\ task'[key[2]] = task[key[2]]]_vars

\* C29: sweep_jobs(max_age_s, keep_running) removes exactly the terminal jobs
\* older than max_age_s and, when keep_running is false, the PENDING and
\* RUNNING jobs older than max_age_s; it keeps every job of age at most
\* max_age_s and, when keep_running is true, every PENDING or RUNNING job; the
\* number it returns is the number of jobs it removed.
C29_SweepExact ==
    \A max_age_s \in {0, 1, SweepMaxAge} : \A keep_running \in BOOLEAN :
        LET kept == sweep_jobs(JOBS, max_age_s, keep_running, now)
            Age(key) ==
                LET j == job[key[2]]
                IN IF IsNone(j.finished_at) THEN now - j.created_at
                   ELSE now - Val(j.finished_at)
        IN /\ kept \subseteq JOBS
           /\ \A key \in JOBS :
                 key \notin kept <=>
                     /\ Age(key) > max_age_s
                     /\ \/ job[key[2]].state \in Terminal
                        \/ ~keep_running /\ job[key[2]].state \in {PENDING, RUNNING}
           /\ \A key \in JOBS : Age(key) <= max_age_s => key \in kept
           /\ \A key \in JOBS :
                 (keep_running /\ job[key[2]].state \in {PENDING, RUNNING}) => key \in kept
           /\ sweep_jobs_removed(JOBS, max_age_s, keep_running, now)
                 = Cardinality(JOBS \ kept)

\* A store on which the sweep tells the cases apart: a job older than a second
\* and not older than SweepMaxAge that is running is removed at max age 0 only
\* when keep_running is false, and kept at max age SweepMaxAge.
C29_Witness ==
    \E key \in JOBS :
        /\ job[key[2]].state = RUNNING
        /\ now - job[key[2]].created_at = 1
        /\ key \notin sweep_jobs(JOBS, 0, FALSE, now)
        /\ key \in sweep_jobs(JOBS, 0, TRUE, now)
        /\ key \in sweep_jobs(JOBS, SweepMaxAge, FALSE, now)
        /\ sweep_jobs_removed(JOBS, 0, FALSE, now) = 1

\* C30: no job stays in the store for ever: a job that is never retrieved,
\* terminal or abandoned, is reclaimed by the sweep once it is older than the
\* maximum age.  Of the jobs in the store whose task has ended and that are
\* older than SweepMaxAge, the sweep that get_job_result runs keeps none.
C30_SweepReclaims ==
    impl = "jobs" =>
        \A key \in JOBS :
            LET j == job[key[2]]
                ts == IF IsNone(j.finished_at) THEN j.created_at ELSE Val(j.finished_at)
            IN (TaskDone(task[key[2]]) /\ now - ts > SweepMaxAge)
               => key \notin sweep_jobs(JOBS, SweepMaxAge, TRUE, now)

\* C31: chunk loop termination.  For every chunk size of at least a sample
\* and every overlap >= 0 the call does not fail, an overlap that is not
\* smaller than the chunk is replaced by 0, the step between chunk starts is
\* positive, the chunks processed are no more than the samples, ...
C31_StepPositive ==
    /\ (split.pc = "ValueError") => to_samples(split.chunk_duration) <= 0
    /\ split.pc \in {"loop", "returned"} =>
          /\ split.step > 0
          /\ split.step = split.samples_per_chunk - split.overlap_samples
          /\ split.overlap_samples =
                IF to_samples(split.overlap) >= split.samples_per_chunk THEN 0
                ELSE to_samples(split.overlap)
          /\ Len(split.chunks) <= split.num_samples

\* ... and the uninterrupted run returns.
C31_LoopTerminates ==
    []C31_StepPositive /\ ((split.pc = "loop") ~> (split.pc = "returned"))

\* A run that returned after several chunks with an overlap that was not
\* smaller than the chunk.
C31_Witness ==
    /\ split.pc = "returned"
    /\ to_samples(split.overlap) >= split.samples_per_chunk
    /\ Len(split.chunks) >= 3

\* C32: chunk coverage and order.  With c the chunk size and o the effective
\* overlap, the k-th chunk processed (k = 0, 1, ...) is
\* [k*(c-o), min(n, k*(c-o)+c)), it is not empty, no chunk before the last
\* reaches n, and when the run has returned the last one does: the chunks in
\* the output list, in their order, cover every sample of [0, n).
C32_ChunksCoverInOrder ==
    split.pc \in {"loop", "returned"} =>
        LET n == split.num_samples
            c == split.samples_per_chunk
            o == split.overlap_samples
            chunks == split.chunks
        IN /\ \A i \in 1 .. Len(chunks) :
                 /\ chunks[i].lo = (i - 1) * (c - o)
                 /\ chunks[i].hi = Min(n, (i - 1) * (c - o) + c)
                 /\ chunks[i].lo < chunks[i].hi
                 /\ i < Len(chunks) => (i - 1) * (c - o) + c < n
           /\ split.pc = "returned" =>
                 /\ n > 0 => (Len(chunks) > 0 /\ (Len(chunks) - 1) * (c - o) + c >= n)
                 /\ \A x \in 0 .. n - 1 :
                        \E i \in 1 .. Len(chunks) : chunks[i].lo <= x /\ x < chunks[i].hi

\* A run that returned three chunks with an overlap of a sample, the last
\* chunk cut short by the end of the audio.
C32_Witness ==
    /\ split.pc = "returned"
    /\ Len(split.chunks) = 3
    /\ split.overlap_samples = 1
    /\ split.chunks[3].hi - split.chunks[3].lo < split.samples_per_chunk

\* C33: progress marshaling.  A report of the callable writes nothing to the
\* job: it queues the clamped fraction on the loop, behind the reports queued
\* before it.  The loop applies the report at the head of the queue and takes
\* it off.  And the progress of a job changes in no other way than by the start
\* of _work, by its end, and by the loop applying the head of the queue.
C33_MarshalStep ==
    \A jid \in DOMAIN task \cap DOMAIN task' :
        LET q == task[jid].cbq
            q1 == task'[jid].cbq
        IN /\ Len(q1) > Len(q) =>
                /\ job'[jid] = job[jid]
                /\ \E fraction \in Fractions :
                      q1 = Append(q, IF fraction < P0 THEN P0
                                     ELSE IF fraction > P1 THEN P1 ELSE fraction)
           /\ Len(q1) < Len(q) =>
                /\ q1 = Tail(q)
                /\ job'[jid].progress = Head(q)
           /\ job'[jid].progress # job[jid].progress =>
                \/ job[jid].state = PENDING /\ job'[jid].state = RUNNING
                      /\ job'[jid].progress = P001
                \/ job[jid].state = RUNNING /\ job'[jid].state = DONE
                      /\ job'[jid].progress = P1
                \/ q # <<>> /\ q1 = Tail(q) /\ job'[jid].progress = Head(q)

\* C33 as a property of every step.
C33_ProgressMarshaled == [][C33_MarshalStep]_vars

\* Two reports were made; the loop has applied the first, the second is
\* queued.
C33_Witness ==
    \E jid \in DOMAIN task :
        /\ task[jid].calls = 2
        /\ Len(task[jid].cbq) = 1
        /\ job[jid].state = RUNNING
        /\ job[jid].progress # P001
        /\ job[jid].progress # Head(task[jid].cbq)

\* C34: once a job is in a terminal state no step modifies its progress or
\* its status.
C34_TerminalProgressFrozen ==
    [][\A jid \in DOMAIN job \cap DOMAIN job' :
          job[jid].state \in Terminal =>
              /\ job'[jid].progress = job[jid].progress
              /\ job'[jid].status = job[jid].status]_vars

\* C35: when a job is TIMED_OUT or CANCELED its callable executes no more: no
\* thread the callable started is still at work.
C35_CallableStopped ==
    \A jid \in DOMAIN job :
        job[jid].state \in {TIMED_OUT, CANCELED} => run[jid].thread = "idle"

\* C36: the client's ack and pop.  Before a poll has reported a terminal state
\* the helper has not called get_job_result; when it returns or raises after
\* a poll reported a terminal state it has called get_job_result exactly once
\* and the job it launched is in the store no more; and it returns only a
\* result whose state is done.
C36_AckPop ==
    /\ (client.pc \in {"polling", "ack"}) => client.result_calls = 0
    /\ (client.pc \in {"returned", "raised"} /\ ~IsNone(client.terminal_seen)) =>
          /\ client.result_calls = 1
          /\ \A key \in JOBS : key[2] # Val(client.job_id)
          /\ client.pc = "returned" => Val(client.outcome).state = DONE

\* C37: bounded retry.  call_tools_polite makes at most max_retries + 1
\* attempts; every error it went on after is transient; an error it re-raises
\* is the last one, and is either not transient or that of attempt
\* max_retries + 1; a call that returned made its last attempt successfully
\* after transient errors only; ...
C37_Bounded ==
    polite.pc # "none" =>
        /\ polite.made <= polite.max_retries + 1
        /\ Len(polite.errors) <= polite.made
        /\ \A i \in 1 .. Len(polite.errors) :
              (i < Len(polite.errors) \/ polite.pc # "raised") =>
                  is_transient(polite.errors[i])
        /\ polite.pc = "trying" =>
              polite.made = Len(polite.errors) /\ polite.made <= polite.max_retries
        /\ polite.pc = "raised" =>
              /\ polite.made = Len(polite.errors)
              /\ polite.raised = Some(polite.errors[Len(polite.errors)])
              /\ \/ ~is_transient(Val(polite.raised))
                 \/ polite.made = polite.max_retries + 1
        /\ polite.pc = "returned" => polite.made = Len(polite.errors) + 1

\* ... and after it has returned or raised it makes no attempt.
C37_NoAttemptAfterEnd ==
    polite.pc \in {"returned", "raised"} => polite' = polite

\* C37: both halves.
C37_BoundedRetry == []C37_Bounded /\ [][C37_NoAttemptAfterEnd]_vars

\* A call that used up its attempts on transient errors, one of them
\* transient by a lower-cased key, and re-raised the last.
C37_Witness ==
    /\ polite.pc = "raised"
    /\ polite.max_retries = MaxRetries
    /\ polite.made = MaxRetries + 1
    /\ is_transient(Val(polite.raised))
    /\ \E i \in 1 .. Len(polite.errors) : polite.errors[i] = MsgRate

====
